---- MODULE Spec2Model ----
(***************************************************************************)
(* Apnea / hypopnea detection and AHI scoring: the single-pass analyzer    *)
(* (ahi_analysis.py, class AHIAnalyzer) and the chunked analyzer           *)
(* (ahi_analysis_chunked.py, class ChunkedAHIAnalyzer).                    *)
(*                                                                         *)
(* Numbers.  Python floats are modelled as exact rationals [n, d] in       *)
(* lowest terms with d > 0; rounding error of IEEE doubles is not          *)
(* modelled.  Sample values are integers, a smoothed sample is kept as     *)
(* the integer sum of its window (its mean is that sum over the window     *)
(* size).  Sequences are 1-based here and 0-based in the source: sample    *)
(* index i of the source is element i + 1.                                 *)
(***************************************************************************)
EXTENDS Integers, Sequences, FiniteSets, TLC

(***************************************************************************)
(* Arithmetic of the Python runtime.                                       *)
(***************************************************************************)
Abs(x) == IF x < 0 THEN -x ELSE x

Max(a, b) == IF a >= b THEN a ELSE b

Min(a, b) == IF a <= b THEN a ELSE b

RECURSIVE GCD(_, _)
GCD(a, b) == IF b = 0 THEN a ELSE GCD(b, a % b)

\* The rational n / d (d # 0) in lowest terms with a positive denominator.
Rat(n, d) ==
    LET s == IF d < 0 THEN -1 ELSE 1
        g == GCD(Abs(n), Abs(d))
    IN  [n |-> (s * n) \div g, d |-> (s * d) \div g]

RInt(k) == [n |-> k, d |-> 1]

RAdd(a, b) == Rat(a.n * b.d + b.n * a.d, a.d * b.d)

RSub(a, b) == Rat(a.n * b.d - b.n * a.d, a.d * b.d)

RMul(a, b) == Rat(a.n * b.n, a.d * b.d)

\* a / b for b # 0 (the callers test for zero first: Python raises there).
RDiv(a, b) == Rat(a.n * b.d, a.d * b.n)

RLt(a, b) == a.n * b.d < b.n * a.d

RLe(a, b) == a.n * b.d <= b.n * a.d

RMax(a, b) == IF RLt(a, b) THEN b ELSE a

RMin(a, b) == IF RLt(b, a) THEN b ELSE a

\* int(x): truncation toward zero.
Trunc(r) == IF r.n >= 0 THEN r.n \div r.d ELSE -((-r.n) \div r.d)

\* round(x, 1) as a number of tenths: the nearest tenth, a tie to the even one.
Round1(r) ==
    LET t  == 10 * r.n
        q  == t \div r.d
        rm == t % r.d
    IN  IF 2 * rm < r.d THEN q
        ELSE IF 2 * rm > r.d THEN q + 1
        ELSE IF q % 2 = 0 THEN q ELSE q + 1

\* seq[lo:hi] of Python: negative indices count from the end, both are clamped.
PySlice(seq, lo, hi) ==
    LET len == Len(seq)
        l   == IF lo < 0 THEN Max(0, len + lo) ELSE Min(lo, len)
        h   == IF hi < 0 THEN Max(0, len + hi) ELSE Min(hi, len)
    IN  IF h <= l THEN << >> ELSE SubSeq(seq, l + 1, h)

RECURSIVE SumSeq(_)
SumSeq(s) == IF s = << >> THEN 0 ELSE Head(s) + SumSeq(Tail(s))

Range(s) == {s[i] : i \in 1..Len(s)}

\* The k-th smallest element (k in 1..Len(s)) of a non-empty integer sequence.
KthSmallest(s, k) ==
    CHOOSE v \in Range(s) :
        /\ Cardinality({i \in 1..Len(s) : s[i] < v}) < k
        /\ Cardinality({i \in 1..Len(s) : s[i] <= v}) >= k

\* np.median / np.percentile(.., 50) of a non-empty integer sequence, times two.
Median2(s) ==
    LET len == Len(s)
    IN  IF len % 2 = 1 THEN 2 * KthSmallest(s, (len + 1) \div 2)
        ELSE KthSmallest(s, len \div 2) + KthSmallest(s, len \div 2 + 1)

\* np.abs of an array.
AbsSeq(s) == [i \in 1..Len(s) |-> Abs(s[i])]

(***************************************************************************)
(* Clinical parameters (the same in both analyzers).  Fractions of the     *)
(* baseline are kept in percent.                                           *)
(***************************************************************************)
apnea_threshold == 10

hypopnea_min_threshold == 30

hypopnea_max_threshold == 70

spo2_drop_threshold == 3

min_event_duration == 10

\* 'severe' if duration > 30
apnea_severe_duration == 30

\* 'severe' if spo2_drop > 6
hypopnea_severe_drop == 6

\* int(30 * self.spo2_sr): the SpO2 look-back / look-ahead in seconds.
spo2_margin_seconds == 30

\* max(1, int(self.flow_sr * 2)) and max(1, int(self.spo2_sr * 3))
flow_filter_seconds == 2

spo2_filter_seconds == 3

(***************************************************************************)
(* Smoothing: scipy.ndimage.uniform_filter1d(x, size) with its defaults    *)
(* (mode 'reflect', origin 0).  Output sample i is the mean of the inputs  *)
(* at i - size // 2 .. i - size // 2 + size - 1, an index outside the      *)
(* array being reflected about the array's edge (d c b a | a b c d | d c   *)
(* b a).  The result holds the window sums.                                *)
(***************************************************************************)
\* The boundary rule that repeats the edge sample (mode 'nearest').
ReflectRepeatsEdge(i, len) ==
    IF i < 0 THEN 0 ELSE IF i >= len THEN len - 1 ELSE i

Reflect(i, len) ==
    LET j == i % (2 * len)
    IN  IF j < len THEN j ELSE 2 * len - 1 - j

RECURSIVE WindowSum(_, _, _)
WindowSum(x, first, count) ==
    IF count = 0 THEN 0
    ELSE x[Reflect(first, Len(x)) + 1] + WindowSum(x, first + 1, count - 1)

uniform_filter1d(x, size) ==
    [i \in 1..Len(x) |-> WindowSum(x, (i - 1) - (size \div 2), size)]

\* filter_size = max(1, int(sr * seconds)); if it is >= len: max(1, len // 4)
FilterSize(sr, seconds, len) ==
    LET target == Max(1, sr * seconds)
    IN  IF target >= len THEN Max(1, len \div 4) ELSE target

(***************************************************************************)
(* Baseline: the median of the upper half of |flow|, as a rational.        *)
(***************************************************************************)
BaselineOf(flow) ==
    LET flow_abs   == AbsSeq(flow)
        p50x2      == Median2(flow_abs)
        candidates == SelectSeq(flow_abs, LAMBDA v : 2 * v >= p50x2)
    IN  Rat(Median2(candidates), 2)

(***************************************************************************)
(* Run-length extraction: the loop both detectors run over a boolean       *)
(* array.  in_event / event_start are the loop's variables; an interval is *)
(* kept when duration = (event_end - event_start) / flow_sr is at least    *)
(* min_event_duration, and a run still open after the last sample is       *)
(* closed at len(array).                                                   *)
(***************************************************************************)
Interval(event_start, event_end, sr) ==
    [start_sample |-> event_start, end_sample |-> event_end,
     duration |-> Rat(event_end - event_start, sr)]

\* The loop without its duration test: every run becomes an interval.
KeepEveryRun(events, event_start, event_end, sr) ==
    Append(events, Interval(event_start, event_end, sr))

\* The duration test on the number of samples, not on seconds.
KeepIfLongEnoughInSamples(events, event_start, event_end, sr) ==
    IF min_event_duration <= event_end - event_start
    THEN Append(events, Interval(event_start, event_end, sr))
    ELSE events

KeepIfLongEnough(events, event_start, event_end, sr) ==
    IF RLe(RInt(min_event_duration), Rat(event_end - event_start, sr))
    THEN Append(events, Interval(event_start, event_end, sr))
    ELSE events

\* The loop body for sample index i, on the loop's variables.
ScanStep(flags, i, st, sr) ==
    IF flags[i + 1] /\ ~st.in_event
    THEN [in_event |-> TRUE, event_start |-> i, events |-> st.events]
    ELSE IF ~flags[i + 1] /\ st.in_event
    THEN [in_event |-> FALSE, event_start |-> st.event_start,
          events |-> KeepIfLongEnough(st.events, st.event_start, i, sr)]
    ELSE st

\* The loop's variables after the iterations lo .. hi - 1, run in order
\* (the range is halved to keep the evaluation shallow).
RECURSIVE ScanLoop(_, _, _, _, _)
ScanLoop(flags, lo, hi, st, sr) ==
    IF lo >= hi THEN st
    ELSE IF hi = lo + 1 THEN ScanStep(flags, lo, st, sr)
    ELSE \* the first half is evaluated before the second is entered
         CHOOSE after \in {ScanLoop(flags, (lo + hi) \div 2, hi, st_mid, sr) :
                              st_mid \in {ScanLoop(flags, lo, (lo + hi) \div 2, st, sr)}} :
             TRUE

\* The scan without the step after the loop: a run still open at the end
\* of the array is dropped.
RunLengthScanDropsOpenRun(flags, sr) ==
    ScanLoop(flags, 0, Len(flags),
             [in_event |-> FALSE, event_start |-> 0, events |-> << >>], sr).events

RunLengthScan(flags, sr) ==
    LET st == ScanLoop(flags, 0, Len(flags),
                       [in_event |-> FALSE, event_start |-> 0, events |-> << >>], sr)
    IN  IF st.in_event
        THEN KeepIfLongEnough(st.events, st.event_start, Len(flags), sr)
        ELSE st.events

(***************************************************************************)
(* The detection predicates on a smoothed |flow| window sum.               *)
(***************************************************************************)
\* flow_smooth < baseline * apnea_threshold
\* The apnea test against the upper bound of the hypopnea band.
BelowMaxThreshold(sum, size, baseline) ==
    LET threshold == RMul(baseline, Rat(hypopnea_max_threshold, 100))
    IN  sum * threshold.d < threshold.n * size

BelowThreshold(sum, size, baseline) ==
    LET threshold == RMul(baseline, Rat(apnea_threshold, 100))
    IN  sum * threshold.d < threshold.n * size

\* (flow_smooth >= min_threshold) & (flow_smooth <= max_threshold)
FlowReduced(sum, size, baseline) ==
    LET min_threshold == RMul(baseline, Rat(hypopnea_min_threshold, 100))
        max_threshold == RMul(baseline, Rat(hypopnea_max_threshold, 100))
    IN  /\ sum * min_threshold.d >= min_threshold.n * size
        /\ sum * max_threshold.d <= max_threshold.n * size

\* The boolean array below_threshold of a flow window.
ApneaFlags(flow, sr, baseline) ==
    LET filter_size == FilterSize(sr, flow_filter_seconds, Len(flow))
        flow_smooth == uniform_filter1d(AbsSeq(flow), filter_size)
    IN  [i \in 1..Len(flow) |-> BelowThreshold(flow_smooth[i], filter_size, baseline)]

\* The boolean array flow_reduced of a flow window.
HypopneaFlags(flow, sr, baseline) ==
    LET flow_filter_size == FilterSize(sr, flow_filter_seconds, Len(flow))
        flow_smooth      == uniform_filter1d(AbsSeq(flow), flow_filter_size)
    IN  [i \in 1..Len(flow) |-> FlowReduced(flow_smooth[i], flow_filter_size, baseline)]

(***************************************************************************)
(* Apnea detection.  chunk_start_time is 0 for the single-pass analyzer.   *)
(***************************************************************************)
\* The event with its times left in samples, not converted to seconds.
ApneaEventInSamples(iv, sr, chunk_start_time) ==
    [type         |-> "apnea",
     start_sample |-> iv.start_sample,
     end_sample   |-> iv.end_sample,
     start_time   |-> RAdd(chunk_start_time, RInt(iv.start_sample)),
     end_time     |-> RAdd(chunk_start_time, RInt(iv.end_sample)),
     duration     |-> iv.duration,
     severity     |-> IF RLt(RInt(apnea_severe_duration), iv.duration)
                      THEN "severe" ELSE "moderate"]

ApneaEvent(iv, sr, chunk_start_time) ==
    [type         |-> "apnea",
     start_sample |-> iv.start_sample,
     end_sample   |-> iv.end_sample,
     start_time   |-> RAdd(chunk_start_time, Rat(iv.start_sample, sr)),
     end_time     |-> RAdd(chunk_start_time, Rat(iv.end_sample, sr)),
     duration     |-> iv.duration,
     severity     |-> IF RLt(RInt(apnea_severe_duration), iv.duration)
                      THEN "severe" ELSE "moderate"]

detect_apnea_in_chunk(flow_chunk, chunk_start_time, baseline, sr) ==
    LET runs == RunLengthScan(ApneaFlags(flow_chunk, sr, baseline), sr)
    IN  [k \in 1..Len(runs) |-> ApneaEvent(runs[k], sr, chunk_start_time)]

detect_apnea_events(flow, baseline, sr) ==
    LET runs == RunLengthScan(ApneaFlags(flow, sr, baseline), sr)
    IN  [k \in 1..Len(runs) |-> ApneaEvent(runs[k], sr, RInt(0))]

(***************************************************************************)
(* Hypopnea detection: candidates from the flow band, each corroborated    *)
(* by the SpO2 drop between the median of the 30 s before it and the       *)
(* minimum from its start to 30 s after its end.                           *)
(***************************************************************************)
Candidate(iv, sr, chunk_start_time) ==
    [start_sample |-> iv.start_sample,
     end_sample   |-> iv.end_sample,
     start_time   |-> RAdd(chunk_start_time, Rat(iv.start_sample, sr)),
     end_time     |-> RAdd(chunk_start_time, Rat(iv.end_sample, sr)),
     duration     |-> iv.duration]

MinOf(s) == CHOOSE v \in Range(s) : \A w \in Range(s) : v <= w

\* The SpO2 check without its threshold: every candidate with a defined
\* drop is promoted.
CorroborateAnyDrop(event, spo2_smooth, spo2_filter_size, spo2_sr, chunk_start_time) ==
    LET flow_relative_start == RSub(event.start_time, chunk_start_time)
        flow_relative_end   == RSub(event.end_time, chunk_start_time)
        spo2_start == Max(0, Trunc(RMul(flow_relative_start, RInt(spo2_sr))))
        spo2_end   == Min(Len(spo2_smooth), Trunc(RMul(flow_relative_end, RInt(spo2_sr))))
        margin     == spo2_margin_seconds * spo2_sr
        pre        == PySlice(spo2_smooth, Max(0, spo2_start - margin), spo2_start)
        during     == PySlice(spo2_smooth, spo2_start,
                              Min(Len(spo2_smooth), spo2_end + margin))
    IN  IF spo2_end <= spo2_start
        THEN [kept |-> FALSE, why |-> "empty span"]
        ELSE IF pre = << >>
        THEN [kept |-> FALSE, why |-> "nan baseline"]
        ELSE [kept |-> TRUE, why |-> "drop",
              spo2_drop |-> RSub(Rat(Median2(pre), 2 * spo2_filter_size),
                                 Rat(MinOf(during), spo2_filter_size)),
              baseline_spo2 |-> Rat(Median2(pre), 2 * spo2_filter_size),
              min_spo2 |-> Rat(MinOf(during), spo2_filter_size)]

\* The SpO2 check that, when nothing precedes the candidate, takes the
\* highest SpO2 from the candidate's start on as the baseline.
CorroborateWithoutPreWindow(event, spo2_smooth, spo2_filter_size, spo2_sr, chunk_start_time) ==
    LET flow_relative_start == RSub(event.start_time, chunk_start_time)
        flow_relative_end   == RSub(event.end_time, chunk_start_time)
        spo2_start == Max(0, Trunc(RMul(flow_relative_start, RInt(spo2_sr))))
        spo2_end   == Min(Len(spo2_smooth), Trunc(RMul(flow_relative_end, RInt(spo2_sr))))
        margin     == spo2_margin_seconds * spo2_sr
        pre        == PySlice(spo2_smooth, Max(0, spo2_start - margin), spo2_start)
        during     == PySlice(spo2_smooth, spo2_start,
                              Min(Len(spo2_smooth), spo2_end + margin))
    IN  IF spo2_end <= spo2_start
        THEN [kept |-> FALSE, why |-> "empty span"]
        ELSE LET baseline_spo2 == IF pre = << >>
                                  THEN Rat(-MinOf([k \in DOMAIN during |-> -during[k]]),
                                           spo2_filter_size)
                                  ELSE Rat(Median2(pre), 2 * spo2_filter_size)
                 min_spo2      == Rat(MinOf(during), spo2_filter_size)
                 spo2_drop     == RSub(baseline_spo2, min_spo2)
             IN  IF RLe(RInt(spo2_drop_threshold), spo2_drop)
                 THEN [kept |-> TRUE, why |-> "drop",
                       spo2_drop |-> spo2_drop,
                       baseline_spo2 |-> baseline_spo2,
                       min_spo2 |-> min_spo2]
                 ELSE [kept |-> FALSE, why |-> "small drop"]

\* What the loop body does with one candidate: the record of its SpO2 check.
\* kept is FALSE for a candidate the loop skips or does not promote.
Corroborate(event, spo2_smooth, spo2_filter_size, spo2_sr, chunk_start_time) ==
    LET flow_relative_start == RSub(event.start_time, chunk_start_time)
        flow_relative_end   == RSub(event.end_time, chunk_start_time)
        spo2_start == Max(0, Trunc(RMul(flow_relative_start, RInt(spo2_sr))))
        spo2_end   == Min(Len(spo2_smooth), Trunc(RMul(flow_relative_end, RInt(spo2_sr))))
        margin     == spo2_margin_seconds * spo2_sr
        pre_event_start == Max(0, spo2_start - margin)
        pre        == PySlice(spo2_smooth, pre_event_start, spo2_start)
        post_event_end == Min(Len(spo2_smooth), spo2_end + margin)
        during     == PySlice(spo2_smooth, spo2_start, post_event_end)
    IN  IF spo2_end <= spo2_start
        THEN [kept |-> FALSE, why |-> "empty span"]
        ELSE IF pre = << >>
        \* np.median of an empty slice is nan, and nan >= 3.0 is False
        THEN [kept |-> FALSE, why |-> "nan baseline"]
        ELSE LET baseline_spo2 == Rat(Median2(pre), 2 * spo2_filter_size)
                 min_spo2      == Rat(MinOf(during), spo2_filter_size)
                 spo2_drop     == RSub(baseline_spo2, min_spo2)
             IN  IF RLe(RInt(spo2_drop_threshold), spo2_drop)
                 THEN [kept |-> TRUE, why |-> "drop",
                       spo2_drop |-> spo2_drop,
                       baseline_spo2 |-> baseline_spo2,
                       min_spo2 |-> min_spo2]
                 ELSE [kept |-> FALSE, why |-> "small drop"]

HypopneaEvent(event, c) ==
    [type          |-> "hypopnea",
     start_sample  |-> event.start_sample,
     end_sample    |-> event.end_sample,
     start_time    |-> event.start_time,
     end_time      |-> event.end_time,
     duration      |-> event.duration,
     spo2_drop     |-> c.spo2_drop,
     baseline_spo2 |-> c.baseline_spo2,
     min_spo2      |-> c.min_spo2,
     severity      |-> IF RLt(RInt(hypopnea_severe_drop), c.spo2_drop)
                       THEN "severe" ELSE "moderate"]

RECURSIVE Promote(_, _, _, _, _)
Promote(potential_events, spo2_smooth, spo2_filter_size, spo2_sr, chunk_start_time) ==
    IF potential_events = << >> THEN << >>
    ELSE LET event == Head(potential_events)
             c     == Corroborate(event, spo2_smooth, spo2_filter_size, spo2_sr,
                                  chunk_start_time)
             rest  == Promote(Tail(potential_events), spo2_smooth, spo2_filter_size,
                              spo2_sr, chunk_start_time)
         IN  IF c.kept THEN << HypopneaEvent(event, c) >> \o rest ELSE rest

PotentialEvents(flow, sr, baseline, chunk_start_time) ==
    LET runs == RunLengthScan(HypopneaFlags(flow, sr, baseline), sr)
    IN  [k \in 1..Len(runs) |-> Candidate(runs[k], sr, chunk_start_time)]

SmoothSpo2(spo2, spo2_sr) ==
    uniform_filter1d(spo2, FilterSize(spo2_sr, spo2_filter_seconds, Len(spo2)))

detect_hypopnea_in_chunk(flow_chunk, spo2_chunk, chunk_start_time, baseline, sr, spo2_sr) ==
    IF Len(spo2_chunk) = 0 THEN << >>
    ELSE Promote(PotentialEvents(flow_chunk, sr, baseline, chunk_start_time),
                 SmoothSpo2(spo2_chunk, spo2_sr),
                 FilterSize(spo2_sr, spo2_filter_seconds, Len(spo2_chunk)),
                 spo2_sr, chunk_start_time)

detect_hypopnea_events(flow, spo2, baseline, sr, spo2_sr) ==
    Promote(PotentialEvents(flow, sr, baseline, RInt(0)),
            SmoothSpo2(spo2, spo2_sr),
            FilterSize(spo2_sr, spo2_filter_seconds, Len(spo2)),
            spo2_sr, RInt(0))

(***************************************************************************)
(* Chunk geometry of ChunkedAHIAnalyzer.                                   *)
(***************************************************************************)
\* int(minutes * 60 * sr): the chunk and overlap sizes in samples.
SizeInSamples(minutes, sr) == Trunc(RMul(RMul(minutes, RInt(60)), RInt(sr)))

calculate_num_chunks(flow_samples, chunk_size, overlap_size) ==
    LET effective_chunk_size == chunk_size - overlap_size
    IN  IF effective_chunk_size <= 0 THEN 1
        ELSE Max(1, ((flow_samples - chunk_size) \div effective_chunk_size) + 1)

ChunkFlowStart(idx, chunk_size, overlap_size) ==
    IF idx = 0 THEN 0 ELSE idx * (chunk_size - overlap_size)

ChunkFlowEnd(idx, chunk_size, overlap_size, flow_samples) ==
    Min(ChunkFlowStart(idx, chunk_size, overlap_size) + chunk_size, flow_samples)

get_chunk_data(idx, flow, spo2, sr, spo2_rate, chunk_size, overlap_size) ==
    LET flow_start == ChunkFlowStart(idx, chunk_size, overlap_size)
        flow_end   == ChunkFlowEnd(idx, chunk_size, overlap_size, Len(flow))
        chunk_start_time == Rat(flow_start, sr)
        chunk_end_time   == Rat(flow_end, sr)
        spo2_start == Max(0, Trunc(RMul(chunk_start_time, RInt(spo2_rate))))
        spo2_end   == Min(Len(spo2), Trunc(RMul(chunk_end_time, RInt(spo2_rate))))
    IN  [flow_chunk       |-> PySlice(flow, flow_start, flow_end),
         spo2_chunk       |-> PySlice(spo2, spo2_start, spo2_end),
         chunk_start_time |-> chunk_start_time,
         chunk_end_time   |-> chunk_end_time,
         flow_start       |-> flow_start,
         flow_end         |-> flow_end]

(***************************************************************************)
(* Deduplication of the pooled events of one type.                         *)
(***************************************************************************)
\* sorted(all_events, key = start_time): a stable sort.
RECURSIVE InsertByStart(_, _)
InsertByStart(sorted, event) ==
    IF sorted = << >> THEN << event >>
    ELSE IF RLt(event.start_time, Head(sorted).start_time)
         THEN << event >> \o sorted
         ELSE << Head(sorted) >> \o InsertByStart(Tail(sorted), event)

RECURSIVE SortByStart(_)
SortByStart(events) ==
    IF events = << >> THEN << >>
    ELSE InsertByStart(SortByStart(SubSeq(events, 1, Len(events) - 1)),
                       events[Len(events)])

EventSpan(e) == RSub(e.end_time, e.start_time)

\* The overlap test with an inclusive bound: overlap_percentage >= 0.5.
IsDuplicateInclusive(event, existing_event) ==
    LET overlap_start    == RMax(event.start_time, existing_event.start_time)
        overlap_end      == RMin(event.end_time, existing_event.end_time)
        overlap_duration == RMax(RInt(0), RSub(overlap_end, overlap_start))
        max_duration     == RMax(EventSpan(event), EventSpan(existing_event))
    IN  /\ RLt(RInt(0), max_duration)
        /\ RLe(Rat(1, 2), RDiv(overlap_duration, max_duration))

\* overlap_percentage > 0.5
IsDuplicateOf(event, existing_event) ==
    LET overlap_start    == RMax(event.start_time, existing_event.start_time)
        overlap_end      == RMin(event.end_time, existing_event.end_time)
        overlap_duration == RMax(RInt(0), RSub(overlap_end, overlap_start))
        max_duration     == RMax(EventSpan(event), EventSpan(existing_event))
    IN  /\ RLt(RInt(0), max_duration)
        /\ RLt(Rat(1, 2), RDiv(overlap_duration, max_duration))

RemoveAt(s, j) == SubSeq(s, 1, j - 1) \o SubSeq(s, j + 1, Len(s))

\* The loop iteration that also replaces an accepted event of equal length.
DedupStepReplacesEqual(unique_events, event) ==
    LET hits == {j \in 1..Len(unique_events) : IsDuplicateOf(event, unique_events[j])}
    IN  IF hits = {} THEN Append(unique_events, event)
        ELSE LET j == CHOOSE k \in hits : \A m \in hits : k <= m
             IN  IF RLe(EventSpan(unique_events[j]), EventSpan(event))
                 THEN Append(RemoveAt(unique_events, j), event)
                 ELSE unique_events

\* One iteration of the outer loop: event against the accepted unique_events.
DedupStep(unique_events, event) ==
    LET hits == {j \in 1..Len(unique_events) : IsDuplicateOf(event, unique_events[j])}
    IN  IF hits = {} THEN Append(unique_events, event)
        ELSE LET j == CHOOSE k \in hits : \A m \in hits : k <= m
             IN  IF RLt(EventSpan(unique_events[j]), EventSpan(event))
                 THEN Append(RemoveAt(unique_events, j), event)
                 ELSE unique_events

RECURSIVE DedupLoop(_, _)
DedupLoop(sorted_events, unique_events) ==
    IF sorted_events = << >> THEN unique_events
    ELSE DedupLoop(Tail(sorted_events), DedupStep(unique_events, Head(sorted_events)))

\* The deduplicator without the sort: the pooled order is kept.
remove_duplicate_events_unsorted(all_events) ==
    IF all_events = << >> THEN << >>
    ELSE DedupLoop(all_events, << >>)

remove_duplicate_events(all_events) ==
    IF all_events = << >> THEN << >>
    ELSE DedupLoop(SortByStart(all_events), << >>)

(***************************************************************************)
(* The AHI aggregator (calculate_ahi and _calculate_ahi are the same       *)
(* code).  The outcome is the result dictionary, or the exception raised.  *)
(* Rounded fields hold tenths (hundredths for recording_duration_hours).   *)
(***************************************************************************)
Round2(r) == Round1(Rat(10 * r.n, r.d))

RECURSIVE TotalDuration(_)
TotalDuration(events) ==
    IF events = << >> THEN RInt(0)
    ELSE RAdd(Head(events).duration, TotalDuration(Tail(events)))

AhiScore(total_events, hours) ==
    IF RLt(RInt(0), hours) THEN RDiv(RInt(total_events), hours) ELSE RInt(0)

\* The bands with their upper ends included: <= 5, <= 15, <= 30.
SeverityUpperInclusive(ahi_score) ==
    IF RLe(ahi_score, RInt(5)) THEN << "Normal", "green" >>
    ELSE IF RLe(ahi_score, RInt(15)) THEN << "Mild", "yellow" >>
    ELSE IF RLe(ahi_score, RInt(30)) THEN << "Moderate", "orange" >>
    ELSE << "Severe", "red" >>

Severity(ahi_score) ==
    IF RLt(ahi_score, RInt(5)) THEN << "Normal", "green" >>
    ELSE IF RLt(ahi_score, RInt(15)) THEN << "Mild", "yellow" >>
    ELSE IF RLt(ahi_score, RInt(30)) THEN << "Moderate", "orange" >>
    ELSE << "Severe", "red" >>

calculate_ahi(apnea_events, hypopnea_events, hours) ==
    LET total_events == Len(apnea_events) + Len(hypopnea_events)
        ahi_score    == AhiScore(total_events, hours)
        total_apnea_duration    == TotalDuration(apnea_events)
        total_hypopnea_duration == TotalDuration(hypopnea_events)
        total_event_duration    == RAdd(total_apnea_duration, total_hypopnea_duration)
        avg_apnea_duration ==
            IF apnea_events # << >>
            THEN RDiv(total_apnea_duration, RInt(Len(apnea_events))) ELSE RInt(0)
        avg_hypopnea_duration ==
            IF hypopnea_events # << >>
            THEN RDiv(total_hypopnea_duration, RInt(Len(hypopnea_events))) ELSE RInt(0)
    IN  IF hours.n = 0
        \* total_event_duration / (recording_duration_hours * 3600)
        THEN [raised |-> "ZeroDivisionError"]
        ELSE [raised         |-> "",
              ahi_score      |-> Round1(ahi_score),
              severity       |-> Severity(ahi_score)[1],
              severity_color |-> Severity(ahi_score)[2],
              total_events   |-> total_events,
              apnea_count    |-> Len(apnea_events),
              hypopnea_count |-> Len(hypopnea_events),
              recording_duration_hours     |-> Round2(hours),
              total_event_duration_minutes |-> Round1(RDiv(total_event_duration, RInt(60))),
              event_percentage |->
                  Round1(RMul(RDiv(total_event_duration, RMul(hours, RInt(3600))),
                              RInt(100))),
              avg_apnea_duration    |-> Round1(avg_apnea_duration),
              avg_hypopnea_duration |-> Round1(avg_hypopnea_duration),
              apnea_per_hour    |-> Round1(RDiv(RInt(Len(apnea_events)), hours)),
              hypopnea_per_hour |-> Round1(RDiv(RInt(Len(hypopnea_events)), hours))]

\* sorted(apnea_events + hypopnea_events, key = start_time)
\* The two lists joined, apneas first, without the sort.
AllEventsUnsorted(apnea_events, hypopnea_events) == apnea_events \o hypopnea_events

AllEvents(apnea_events, hypopnea_events) == SortByStart(apnea_events \o hypopnea_events)

(***************************************************************************)
(* State.                                                                  *)
(***************************************************************************)
VARIABLES
    \* the input handed to main(): the two channels, their rates, the chunking
    flow_data, spo2_data, flow_sr, spo2_sr, chunk_duration_minutes, overlap_minutes,
    \* ChunkedAHIAnalyzer: where it is, its fields, the locals of analyze()
    pc, flow_chunk_size, flow_overlap_size, recording_duration_hours, num_chunks,
    global_baseline, chunk_idx, all_apnea_events, all_hypopnea_events, results,
    \* AHIAnalyzer: where it is, its optional global_baseline, what analyze() returned
    sp_pc, sp_global_baseline, sp_results,
    \* _remove_duplicate_events called on its own: input, output, number of passes
    dd_pooled, dd_unique, dd_passes,
    \* calculate_ahi called on its own: arguments and outcome
    agg_apnea, agg_hypopnea, agg_hours, agg_out,
    \* the run-length scan called on its own: flags, rate, outcome
    sc_flags, sc_sr, sc_events, sc_done,
    \* the smoothing step called on its own: array, rate, window seconds, outcome
    sm_x, sm_sr, sm_seconds, sm_out, sm_done

inputVars == << flow_data, spo2_data, flow_sr, spo2_sr, chunk_duration_minutes,
                overlap_minutes >>

chunkedVars == << pc, flow_chunk_size, flow_overlap_size, recording_duration_hours,
                  num_chunks, global_baseline, chunk_idx, all_apnea_events,
                  all_hypopnea_events, results >>

singleVars == << sp_pc, sp_global_baseline, sp_results >>

dedupVars == << dd_pooled, dd_unique, dd_passes >>

aggVars == << agg_apnea, agg_hypopnea, agg_hours, agg_out >>

scanVars == << sc_flags, sc_sr, sc_events, sc_done >>

smoothVars == << sm_x, sm_sr, sm_seconds, sm_out, sm_done >>

vars == << inputVars, chunkedVars, singleVars, dedupVars, aggVars, scanVars,
          smoothVars >>

None == "None"

(***************************************************************************)
(* Inputs.  A channel is piecewise constant: up to three segments, each    *)
(* ShortSeg or LongSeg samples long (the last one may be missing).         *)
(***************************************************************************)
ShortSeg == 4

LongSeg == 12

SegLens == {ShortSeg, LongSeg}

Rep(v, len) == [i \in 1..len |-> v]

FlowLevels == {0, 5, 10}

FlowArrays ==
    {Rep(a, la) \o Rep(b, lb) \o Rep(c, lc) :
        a \in FlowLevels, b \in FlowLevels, c \in FlowLevels,
        la \in SegLens, lb \in SegLens, lc \in {0, LongSeg}}

Spo2Arrays ==
    {Rep(97, la) \o Rep(92, lb) : la \in {LongSeg, 2 * LongSeg}, lb \in {0, LongSeg}}

\* (flow_sample_rate, spo2_sample_rate) in Hz
Rates == {<< 1, 1 >>, << 2, 1 >>, << 1, 2 >>}

BadRates == {<< 0, 1 >>, << 1, 0 >>, << -1, 1 >>, << 1, -1 >>}

\* (chunk_duration_minutes, overlap_minutes):
\* 12 s / 2 s, 12 s / 20 s, 60 s / 2 s, 24 s / 12 s
Chunkings ==
    {<< Rat(1, 5), Rat(1, 30) >>, << Rat(1, 5), Rat(1, 3) >>,
     << RInt(1), Rat(1, 30) >>, << Rat(2, 5), Rat(1, 5) >>}

(***************************************************************************)
(* Idle values of the parts a specification does not run.                  *)
(***************************************************************************)
NoResults == [raised |-> "not run"]

ChunkedIdle ==
    /\ pc = "new"
    /\ flow_chunk_size = 0
    /\ flow_overlap_size = 0
    /\ recording_duration_hours = RInt(0)
    /\ num_chunks = 0
    /\ global_baseline = None
    /\ chunk_idx = 0
    /\ all_apnea_events = << >>
    /\ all_hypopnea_events = << >>
    /\ results = NoResults

SingleIdle ==
    /\ sp_pc = "new"
    /\ sp_results = NoResults

DedupIdle ==
    /\ dd_pooled = << >>
    /\ dd_unique = << >>
    /\ dd_passes = 0

AggIdle ==
    /\ agg_apnea = << >>
    /\ agg_hypopnea = << >>
    /\ agg_hours = RInt(0)
    /\ agg_out = NoResults

ScanIdle ==
    /\ sc_flags = << >>
    /\ sc_sr = 1
    /\ sc_events = << >>
    /\ sc_done = FALSE

SmoothIdle ==
    /\ sm_x = << >>
    /\ sm_sr = 1
    /\ sm_seconds = 0
    /\ sm_out = << >>
    /\ sm_done = FALSE

(***************************************************************************)
(* main(): the input has been read from JSON (Python numbers and lists),   *)
(* no analyzer is built yet.                                               *)
(***************************************************************************)
LoadInput(flows, spo2s, rates, chunkings) ==
    /\ flow_data \in flows
    /\ spo2_data \in spo2s
    /\ \E r \in rates : flow_sr = r[1] /\ spo2_sr = r[2]
    /\ \E c \in chunkings : chunk_duration_minutes = c[1] /\ overlap_minutes = c[2]

Init ==
    /\ \/ LoadInput(FlowArrays, Spo2Arrays, Rates, Chunkings)
       \/ LoadInput({<< >>, Rep(0, LongSeg), Rep(10, 2 * LongSeg)},
                    {<< >>, Rep(97, LongSeg)}, Rates \cup BadRates, Chunkings)
    /\ sp_global_baseline = None
    /\ ChunkedIdle
    /\ SingleIdle
    /\ DedupIdle
    /\ AggIdle
    /\ ScanIdle
    /\ SmoothIdle

\* len(data) / (sr * 3600), for sr # 0
DurationHours(data, sr) == Rat(Len(data), sr * 3600)

(***************************************************************************)
(* ChunkedAHIAnalyzer.                                                     *)
(***************************************************************************)
\* __init__: the durations divide by the rates (ZeroDivisionError), the
\* diagnostics take np.min of each channel (ValueError on an empty one).
\* The two analyzers are separate programs that share only the read-only
\* input, so their steps commute: the single-pass one is run to its end first.
Construct ==
    /\ pc = "new"
    /\ sp_pc \in {"done", "raised"}
    /\ IF flow_sr = 0 \/ spo2_sr = 0 \/ flow_data = << >> \/ spo2_data = << >>
       THEN /\ pc' = "raised"
            /\ UNCHANGED << flow_chunk_size, flow_overlap_size,
                            recording_duration_hours, num_chunks >>
       ELSE /\ pc' = "ready"
            /\ flow_chunk_size' = SizeInSamples(chunk_duration_minutes, flow_sr)
            /\ flow_overlap_size' = SizeInSamples(overlap_minutes, flow_sr)
            /\ recording_duration_hours' =
                   RMin(DurationHours(flow_data, flow_sr),
                        DurationHours(spo2_data, spo2_sr))
            /\ num_chunks' =
                   calculate_num_chunks(Len(flow_data),
                                        SizeInSamples(chunk_duration_minutes, flow_sr),
                                        SizeInSamples(overlap_minutes, flow_sr))
    /\ UNCHANGED << global_baseline, chunk_idx, all_apnea_events,
                    all_hypopnea_events, results >>
    /\ UNCHANGED << inputVars, singleVars, dedupVars, aggVars, scanVars, smoothVars >>

\* analyze(), up to the loop: the global baseline, the empty pools.
StartAnalyze ==
    /\ pc = "ready"
    /\ pc' = "chunks"
    /\ global_baseline' = BaselineOf(flow_data)
    /\ chunk_idx' = 0
    /\ all_apnea_events' = << >>
    /\ all_hypopnea_events' = << >>
    /\ UNCHANGED << flow_chunk_size, flow_overlap_size, recording_duration_hours,
                    num_chunks, results >>
    /\ UNCHANGED << inputVars, singleVars, dedupVars, aggVars, scanVars, smoothVars >>

ChunkAt(idx) ==
    get_chunk_data(idx, flow_data, spo2_data, flow_sr, spo2_sr,
                   flow_chunk_size, flow_overlap_size)

\* The loop iteration with the thresholds taken from the chunk's own
\* baseline instead of the global one.
ProcessChunkOwnBaseline ==
    /\ pc = "chunks"
    /\ chunk_idx < num_chunks
    /\ \E c \in {ChunkAt(chunk_idx)} :
       \E own \in {IF c.flow_chunk = << >> THEN global_baseline
                   ELSE BaselineOf(c.flow_chunk)} :
           /\ all_apnea_events' = all_apnea_events \o
                  detect_apnea_in_chunk(c.flow_chunk, c.chunk_start_time, own, flow_sr)
           /\ all_hypopnea_events' = all_hypopnea_events \o
                  detect_hypopnea_in_chunk(c.flow_chunk, c.spo2_chunk,
                                           c.chunk_start_time, own, flow_sr, spo2_sr)
    /\ chunk_idx' = chunk_idx + 1
    /\ UNCHANGED << pc, flow_chunk_size, flow_overlap_size, recording_duration_hours,
                    num_chunks, global_baseline, results >>
    /\ UNCHANGED << inputVars, singleVars, dedupVars, aggVars, scanVars, smoothVars >>

\* analyze(), one iteration of the loop over range(num_chunks).
ProcessChunk ==
    /\ pc = "chunks"
    /\ chunk_idx < num_chunks
    /\ \E c \in {ChunkAt(chunk_idx)} :
           /\ all_apnea_events' = all_apnea_events \o
                  detect_apnea_in_chunk(c.flow_chunk, c.chunk_start_time,
                                        global_baseline, flow_sr)
           /\ all_hypopnea_events' = all_hypopnea_events \o
                  detect_hypopnea_in_chunk(c.flow_chunk, c.spo2_chunk,
                                           c.chunk_start_time, global_baseline,
                                           flow_sr, spo2_sr)
    /\ chunk_idx' = chunk_idx + 1
    /\ UNCHANGED << pc, flow_chunk_size, flow_overlap_size, recording_duration_hours,
                    num_chunks, global_baseline, results >>
    /\ UNCHANGED << inputVars, singleVars, dedupVars, aggVars, scanVars, smoothVars >>

\* analyze(), after the loop: deduplicate each pool, aggregate, build the result.
Finish ==
    /\ pc = "chunks"
    /\ chunk_idx >= num_chunks
    /\ \E apnea \in {remove_duplicate_events(all_apnea_events)} :
       \E hypopnea \in {remove_duplicate_events(all_hypopnea_events)} :
       \E ahi \in {calculate_ahi(apnea, hypopnea, recording_duration_hours)} :
           /\ all_apnea_events' = apnea
           /\ all_hypopnea_events' = hypopnea
           /\ IF ahi.raised # ""
              THEN /\ pc' = "raised"
                   /\ UNCHANGED results
              ELSE /\ pc' = "done"
                   /\ results' =
                          [raised          |-> "",
                           ahi_analysis    |-> ahi,
                           apnea_events    |-> apnea,
                           hypopnea_events |-> hypopnea,
                           all_events      |-> AllEvents(apnea, hypopnea),
                           num_chunks      |-> num_chunks,
                           global_baseline |-> global_baseline]
    /\ UNCHANGED << flow_chunk_size, flow_overlap_size, recording_duration_hours,
                    num_chunks, global_baseline, chunk_idx >>
    /\ UNCHANGED << inputVars, singleVars, dedupVars, aggVars, scanVars, smoothVars >>

(***************************************************************************)
(* AHIAnalyzer.                                                            *)
(***************************************************************************)
\* __init__: np.min of each channel in the diagnostics (ValueError if empty).
SPConstruct ==
    /\ sp_pc = "new"
    /\ sp_pc' = IF flow_data = << >> \/ spo2_data = << >> THEN "raised" ELSE "ready"
    /\ UNCHANGED << sp_global_baseline, sp_results >>
    /\ UNCHANGED << inputVars, chunkedVars, dedupVars, aggVars, scanVars, smoothVars >>

calculate_baseline_flow(flow, supplied) ==
    IF supplied # None THEN supplied ELSE BaselineOf(flow)

\* analyze(): durations, the two detectors, the aggregator, the result.
SPAnalyze ==
    /\ sp_pc = "ready"
    /\ IF flow_sr = 0 \/ spo2_sr = 0
       THEN /\ sp_pc' = "raised"
            /\ UNCHANGED sp_results
       ELSE \E hours \in {RMin(DurationHours(flow_data, flow_sr),
                                DurationHours(spo2_data, spo2_sr))} :
            \E baseline \in {calculate_baseline_flow(flow_data, sp_global_baseline)} :
            \E apnea \in {detect_apnea_events(flow_data, baseline, flow_sr)} :
            \E hypopnea \in {detect_hypopnea_events(flow_data, spo2_data, baseline,
                                                    flow_sr, spo2_sr)} :
            \E ahi \in {calculate_ahi(apnea, hypopnea, hours)} :
                IF ahi.raised # ""
                THEN /\ sp_pc' = "raised"
                     /\ UNCHANGED sp_results
                ELSE /\ sp_pc' = "done"
                     /\ sp_results' =
                            [raised          |-> "",
                             ahi_analysis    |-> ahi,
                             apnea_events    |-> apnea,
                             hypopnea_events |-> hypopnea,
                             all_events      |-> AllEvents(apnea, hypopnea),
                             baseline        |-> baseline]
    /\ UNCHANGED sp_global_baseline
    /\ UNCHANGED << inputVars, chunkedVars, dedupVars, aggVars, scanVars, smoothVars >>

Next ==
    \/ Construct
    \/ StartAnalyze
    \/ ProcessChunk
    \/ Finish
    \/ SPConstruct
    \/ SPAnalyze

Spec == Init /\ [][Next]_vars

(***************************************************************************)
(* The deduplicator on its own: _remove_duplicate_events applied to a      *)
(* pooled list of same-type events, then applied again to its own output.  *)
(* Event times lie on a grid of seconds; every event lasts at least        *)
(* min_event_duration, as every detected event does.                       *)
(***************************************************************************)
MaxPooled == 3

TimeGrid == {100, 105, 115, 120, 130, 145}

PooledEvent(s, e) ==
    [type |-> "apnea", start_time |-> RInt(s), end_time |-> RInt(e),
     duration |-> RInt(e - s)]

PooledEvents ==
    {PooledEvent(p[1], p[2]) :
        p \in {q \in TimeGrid \X TimeGrid : q[2] - q[1] >= min_event_duration}}

InputIdle ==
    /\ flow_data = << >>
    /\ spo2_data = << >>
    /\ flow_sr = 1
    /\ spo2_sr = 1
    /\ chunk_duration_minutes = RInt(1)
    /\ overlap_minutes = RInt(0)
    /\ sp_global_baseline = None

InitDedup ==
    /\ dd_pooled \in UNION {[1..n -> PooledEvents] : n \in 0..MaxPooled}
    /\ dd_unique = << >>
    /\ dd_passes = 0
    /\ InputIdle
    /\ ChunkedIdle
    /\ SingleIdle
    /\ AggIdle
    /\ ScanIdle
    /\ SmoothIdle

\* unique = self._remove_duplicate_events(pooled)
Deduplicate ==
    /\ dd_passes = 0
    /\ dd_unique' = remove_duplicate_events(dd_pooled)
    /\ dd_passes' = 1
    /\ UNCHANGED dd_pooled
    /\ UNCHANGED << inputVars, chunkedVars, singleVars, aggVars, scanVars, smoothVars >>

\* The same call on the list the first call returned.
DeduplicateAgain ==
    /\ dd_passes = 1
    /\ dd_pooled' = dd_unique
    /\ dd_unique' = remove_duplicate_events(dd_unique)
    /\ dd_passes' = 2
    /\ UNCHANGED << inputVars, chunkedVars, singleVars, aggVars, scanVars, smoothVars >>

NextDedup ==
    \/ Deduplicate
    \/ DeduplicateAgain

SpecDedup == InitDedup /\ [][NextDedup]_vars

(***************************************************************************)
(* The aggregator on its own: calculate_ahi on event lists of every small  *)
(* size and on durations of either sign.                                   *)
(***************************************************************************)
MaxCount == 3

EventDurations == {RInt(min_event_duration), RInt(40)}

EventLists(type) ==
    UNION {[1..n -> {[type |-> type, duration |-> d] : d \in EventDurations}] :
               n \in 0..MaxCount}

DurationsInHours ==
    {Rat(-1, 2), RInt(0), Rat(1, 100), Rat(1, 5), Rat(1, 3), Rat(1, 2),
     Rat(121, 100), RInt(2)}

InitAgg ==
    /\ agg_apnea \in EventLists("apnea")
    /\ agg_hypopnea \in EventLists("hypopnea")
    /\ agg_hours \in DurationsInHours
    /\ agg_out = NoResults
    /\ InputIdle
    /\ ChunkedIdle
    /\ SingleIdle
    /\ DedupIdle
    /\ ScanIdle
    /\ SmoothIdle

\* ahi_results = self.calculate_ahi(apnea_events, hypopnea_events, hours)
Aggregate ==
    /\ agg_out = NoResults
    /\ agg_out' = calculate_ahi(agg_apnea, agg_hypopnea, agg_hours)
    /\ UNCHANGED << agg_apnea, agg_hypopnea, agg_hours >>
    /\ UNCHANGED << inputVars, chunkedVars, singleVars, dedupVars, scanVars, smoothVars >>

NextAgg == Aggregate

SpecAgg == InitAgg /\ [][NextAgg]_vars

(***************************************************************************)
(* Properties.                                                             *)
(***************************************************************************)
ChunkedReturned == pc = "done"

SingleReturned == sp_pc = "done"

ReturnedEvents ==
    (IF ChunkedReturned
     THEN Range(results.apnea_events) \cup Range(results.hypopnea_events)
              \cup Range(results.all_events)
     ELSE {})
    \cup
    (IF SingleReturned
     THEN Range(sp_results.apnea_events) \cup Range(sp_results.hypopnea_events)
              \cup Range(sp_results.all_events)
     ELSE {})

PairFirst == IF RLe(dd_pooled[1].start_time, dd_pooled[2].start_time)
             THEN dd_pooled[1] ELSE dd_pooled[2]

PairSecond == IF RLe(dd_pooled[1].start_time, dd_pooled[2].start_time)
              THEN dd_pooled[2] ELSE dd_pooled[1]

PairOverlap ==
    Max(0, Min(PairFirst.end_time.n, PairSecond.end_time.n)
               - Max(PairFirst.start_time.n, PairSecond.start_time.n))

PairLonger == IF PairSecond.duration.n > PairFirst.duration.n
              THEN PairSecond ELSE PairFirst

PairDeduplicated == dd_passes = 1 /\ Len(dd_pooled) = 2

\* C2 (as the code has it): two pooled events collapse into one exactly when
\* their overlap is more than 50% of the longer event's duration, and the
\* event kept is then the longer one (the earlier one when neither is
\* longer); a pair overlapping by exactly 50%, such as [100,130] and
\* [115,145], is returned whole, in start order.
C2_CollapseAboveHalfOfLonger ==
    PairDeduplicated =>
        IF 2 * PairOverlap > PairLonger.duration.n
        THEN dd_unique = << PairLonger >>
        ELSE dd_unique = << PairFirst, PairSecond >>

\* [100,130] and [115,145] have been deduplicated and both are returned.
C2_Witness ==
    /\ PairDeduplicated
    /\ dd_pooled = << PooledEvent(100, 130), PooledEvent(115, 145) >>
    /\ dd_unique = dd_pooled

\* C2 as stated: a pair whose overlap is 50% of the shorter event's
\* duration collapses into the longer event (the earlier when neither is).
C2_CollapseAtHalfOfShorter ==
    (/\ PairDeduplicated
     /\ 2 * PairOverlap = Min(PairFirst.duration.n, PairSecond.duration.n))
        => dd_unique = << PairLonger >>

\* C3: deduplicating the output of a deduplication returns it unchanged.
C3_DeduplicationIdempotent ==
    dd_passes = 2 => dd_unique = dd_pooled

\* C4: on a well-formed recording shorter than one chunk, with a positive
\* baseline, the chunked analyzer returns the events and the AHI score the
\* single-pass analyzer returns.
C4_SingleChunkEquivalence ==
    (/\ ChunkedReturned
     /\ SingleReturned
     /\ flow_sr > 0
     /\ spo2_sr > 0
     /\ Len(flow_data) < flow_chunk_size
     /\ num_chunks = 1
     /\ RLt(RInt(0), global_baseline)
     /\ sp_results.baseline = global_baseline)
        => /\ results.apnea_events = sp_results.apnea_events
           /\ results.hypopnea_events = sp_results.hypopnea_events
           /\ results.ahi_analysis.ahi_score = sp_results.ahi_analysis.ahi_score

\* ceil(a / b) for b > 0
CeilDiv(a, b) == -((-a) \div b)

Constructed == pc \in {"ready", "chunks", "done"}

\* C5: with an overlap smaller than the chunk, the number of chunks is
\* ceil((samples - chunk_size) / (chunk_size - overlap_size)) + 1, at least 1.
C5_NumChunksIsCeiling ==
    (Constructed /\ flow_overlap_size < flow_chunk_size)
        => num_chunks =
               Max(1, CeilDiv(Len(flow_data) - flow_chunk_size,
                              flow_chunk_size - flow_overlap_size) + 1)

\* C6: with an overlap of at least the chunk size (positive rates), there
\* is one chunk and its flow slice is the whole recording.
C6_DegenerateOverlapCoversRecording ==
    (Constructed /\ flow_sr > 0 /\ flow_overlap_size >= flow_chunk_size)
        => /\ num_chunks = 1
           /\ ChunkAt(0).flow_chunk = flow_data

\* The maximal predicate-true runs of at least 10 s of the whole recording.
QualifyingRuns ==
    Range(RunLengthScan(ApneaFlags(flow_data, flow_sr, global_baseline), flow_sr))
    \cup
    Range(RunLengthScan(HypopneaFlags(flow_data, flow_sr, global_baseline), flow_sr))

ProcessedChunks == 0..(num_chunks - 1)

CrossesChunkBoundary(iv) ==
    \E idx \in ProcessedChunks :
        \E b \in {ChunkAt(idx).flow_start, ChunkAt(idx).flow_end} :
            iv.start_sample < b /\ b < iv.end_sample

InsideOneChunk(iv) ==
    \E idx \in ProcessedChunks :
        /\ ChunkAt(idx).flow_start <= iv.start_sample
        /\ iv.end_sample <= ChunkAt(idx).flow_end

\* C7: on a well-formed recording with an overlap smaller than the chunk
\* and a positive baseline, every qualifying run that crosses a chunk
\* boundary lies inside the sample range of one processed chunk.
C7_BoundaryRunsInsideOneChunk ==
    (/\ pc \in {"chunks", "done"}
     /\ flow_sr > 0
     /\ spo2_sr > 0
     /\ flow_overlap_size < flow_chunk_size
     /\ RLt(RInt(0), global_baseline))
        => \A iv \in QualifyingRuns : CrossesChunkBoundary(iv) => InsideOneChunk(iv)

\* C8: an analysis whose baseline is zero does not return a result.
C8_ZeroBaselineFails ==
    /\ ChunkedReturned => results.global_baseline # RInt(0)
    /\ SingleReturned => sp_results.baseline # RInt(0)

\* C9: with a non-positive sample rate or an empty channel (a recording of
\* zero or negative duration) neither analyzer returns a result.
C9_BadConfigurationFails ==
    (\/ flow_sr <= 0
     \/ spo2_sr <= 0
     \/ flow_data = << >>
     \/ spo2_data = << >>)
        => ~ChunkedReturned /\ ~SingleReturned

\* C10: the aggregator returns a result for every duration; its ahi_score
\* is the event count over the duration (rounded to one decimal as the
\* result holds it) when the duration is positive, and 0 otherwise.
C10_AggregatorTotal ==
    agg_out # NoResults =>
        /\ agg_out.raised = ""
        /\ agg_out.ahi_score =
               IF RLt(RInt(0), agg_hours)
               THEN Round1(RDiv(RInt(Len(agg_apnea) + Len(agg_hypopnea)), agg_hours))
               ELSE 0

Aggregated == agg_out # NoResults /\ agg_out.raised = ""

AggCount == Len(agg_apnea) + Len(agg_hypopnea)

\* The band of the quotient count / hours (0 when hours <= 0), by cross
\* multiplication: << class, color >>.
BandOfQuotient(count, hours) ==
    IF hours.n <= 0 \/ count * hours.d < 5 * hours.n THEN << "Normal", "green" >>
    ELSE IF count * hours.d < 15 * hours.n THEN << "Mild", "yellow" >>
    ELSE IF count * hours.d < 30 * hours.n THEN << "Moderate", "orange" >>
    ELSE << "Severe", "red" >>

\* The band of a score given in tenths, as the result holds it.
BandOfTenths(tenths) ==
    IF tenths < 50 THEN << "Normal", "green" >>
    ELSE IF tenths < 150 THEN << "Mild", "yellow" >>
    ELSE IF tenths < 300 THEN << "Moderate", "orange" >>
    ELSE << "Severe", "red" >>

PreSeconds == 60

PostSeconds == 30

SteadyFlow == 10

SteadySpo2 == 97

DropSeconds == {5, 9, 10, 11, 15, 20}

DropLevels == {0, 2, 5}

Spo2Drops == {0, 1, 3, 4}

DropRates == {<< 1, 1 >>, << 2, 1 >>}

DefaultChunking == << RInt(30), RInt(2) >>

DropFlow(level, seconds, sr) ==
    Rep(SteadyFlow, PreSeconds * sr) \o Rep(level, seconds * sr)
        \o Rep(SteadyFlow, PostSeconds * sr)

DropSpo2(drop, seconds, sr) ==
    Rep(SteadySpo2, PreSeconds * sr) \o Rep(SteadySpo2 - drop, (seconds + PostSeconds) * sr)

InitDrop ==
    /\ \E level \in DropLevels, seconds \in DropSeconds, drop \in Spo2Drops,
          r \in DropRates :
           /\ flow_data = DropFlow(level, seconds, r[1])
           /\ spo2_data = DropSpo2(drop, seconds, r[2])
           /\ flow_sr = r[1]
           /\ spo2_sr = r[2]
    /\ chunk_duration_minutes = DefaultChunking[1]
    /\ overlap_minutes = DefaultChunking[2]
    /\ sp_global_baseline = None
    /\ ChunkedIdle
    /\ SingleIdle
    /\ DedupIdle
    /\ AggIdle
    /\ ScanIdle
    /\ SmoothIdle

SpecDrop == InitDrop /\ [][Next]_vars

(***************************************************************************)
(* Properties of the synthetic recordings.                                 *)
(***************************************************************************)
\* The recording whose flow drops to `level` for `seconds`.
DropInput(level, seconds) == flow_data = DropFlow(level, seconds, flow_sr)

\* The results of the analyzers that have returned.
Returned ==
    (IF ChunkedReturned THEN {results} ELSE {}) \cup
    (IF SingleReturned THEN {sp_results} ELSE {})

\* An event lies within the seconds of the flow drop.
WithinDrop(e, seconds) ==
    /\ RLe(RInt(PreSeconds), e.start_time)
    /\ RLe(e.end_time, RInt(PreSeconds + seconds))

\* C12: on flow steady for 60 s, at 0 for 15 s and steady again, each
\* analyzer returns exactly one event, an apnea; its interval lies within
\* the 15 s of the drop and its duration differs from 15 s by at most the
\* length of the flow smoothing window (2 s).
C12_OneApneaSpanningTheDrop ==
    DropInput(0, 15) =>
        \A r \in Returned :
            /\ Len(r.apnea_events) = 1
            /\ r.hypopnea_events = << >>
            /\ Len(r.all_events) = 1
            /\ r.all_events[1].type = "apnea"
            /\ r.all_events = r.apnea_events
            /\ WithinDrop(r.apnea_events[1], 15)
            /\ RLe(RSub(RInt(15), r.apnea_events[1].duration),
                   RInt(flow_filter_seconds))
            /\ RLe(RSub(r.apnea_events[1].duration, RInt(15)),
                   RInt(flow_filter_seconds))

\* Both analyzers have returned their one apnea for the 15 s drop, sampled
\* at 2 Hz.
C12_Witness ==
    /\ DropInput(0, 15)
    /\ flow_sr = 2
    /\ ChunkedReturned
    /\ SingleReturned
    /\ Len(results.apnea_events) = 1
    /\ Len(sp_results.apnea_events) = 1


\* An analyzer's result holds no event at all.
NoEvents(r) ==
    /\ r.apnea_events = << >>
    /\ r.hypopnea_events = << >>
    /\ r.all_events = << >>
    /\ r.ahi_analysis.total_events = 0
    /\ r.ahi_analysis.ahi_score = 0

\* C13: on flow at baseline level with one drop to 0 shorter than the 10 s
\* minimum (5 s, 9 s), whatever the SpO2 does, each analyzer returns no
\* event: no apnea, and no hypopnea from the smoothed transitions.
C13_ShortDropYieldsNoEvent ==
    \A seconds \in {d \in DropSeconds : d < min_event_duration} :
        DropInput(0, seconds) => \A r \in Returned : NoEvents(r)

\* Both analyzers have returned for a 9 s drop to 0 sampled at 2 Hz, with
\* SpO2 falling by 4 at the drop.
C13_Witness ==
    /\ DropInput(0, 9)
    /\ flow_sr = 2
    /\ spo2_data = DropSpo2(4, 9, spo2_sr)
    /\ ChunkedReturned
    /\ SingleReturned
    /\ NoEvents(results)
    /\ NoEvents(sp_results)


\* C14: every hypopnea an analyzer returns carries spo2_drop =
\* baseline_spo2 - min_spo2 >= 3; a 20 s flow reduction to half the
\* baseline gives no hypopnea when SpO2 falls by 1 and exactly one when it
\* falls by 4.
C14_HypopneaNeedsSpo2Drop ==
    \A r \in Returned :
        /\ \A k \in 1..Len(r.hypopnea_events) :
               LET e == r.hypopnea_events[k]
               IN  /\ e.spo2_drop = RSub(e.baseline_spo2, e.min_spo2)
                   /\ RLe(RInt(spo2_drop_threshold), e.spo2_drop)
        /\ (DropInput(5, 20) /\ spo2_data = DropSpo2(1, 20, spo2_sr))
               => r.hypopnea_events = << >>
        /\ (DropInput(5, 20) /\ spo2_data = DropSpo2(4, 20, spo2_sr))
               => Len(r.hypopnea_events) = 1

\* Both analyzers have returned one hypopnea for the 20 s reduction to half
\* the baseline with SpO2 falling by 4.
C14_Witness ==
    /\ DropInput(5, 20)
    /\ spo2_data = DropSpo2(4, 20, spo2_sr)
    /\ ChunkedReturned
    /\ SingleReturned
    /\ Len(results.hypopnea_events) = 1
    /\ Len(sp_results.hypopnea_events) = 1
    /\ results.hypopnea_events[1].spo2_drop = RInt(4)


\* Drop levels that reduce the flow by 30% to 90% of the steady level.
PartialReductions ==
    {level \in DropLevels : 10 * level >= SteadyFlow /\ 10 * level <= 7 * SteadyFlow}

\* Drops long enough for the smoothed flow to stay at the drop level for
\* at least 10 s.
LongDrops ==
    {d \in DropSeconds : d >= min_event_duration + flow_filter_seconds}

\* C15: a stretch of at least 10 s of smoothed flow reduced by 30% to 90%
\* from baseline (between 0.10 and 0.70 of it), with SpO2 falling by at
\* least 3, is reported as a hypopnea inside the stretch.
C15_PartialReductionReported ==
    \A level \in PartialReductions, seconds \in LongDrops :
        (/\ DropInput(level, seconds)
         /\ \E drop \in {d \in Spo2Drops : d >= spo2_drop_threshold} :
                spo2_data = DropSpo2(drop, seconds, spo2_sr))
        => \A r \in Returned :
               \E k \in 1..Len(r.hypopnea_events) :
                   /\ RLe(RInt(PreSeconds), r.hypopnea_events[k].start_time)
                   /\ RLe(r.hypopnea_events[k].end_time,
                          RInt(PreSeconds + seconds + flow_filter_seconds))


\* C16: a stretch of at least 10 s of raw flow below 0.10 of baseline (10 s
\* or more of zero flow between flow at baseline level) is reported as an
\* apnea.
C16_CessationReported ==
    \A seconds \in {d \in DropSeconds : d >= min_event_duration} :
        DropInput(0, seconds) =>
            \A r \in Returned :
                \E k \in 1..Len(r.apnea_events) :
                    /\ RLt(r.apnea_events[k].start_time, RInt(PreSeconds + seconds))
                    /\ RLt(RInt(PreSeconds), r.apnea_events[k].end_time)


(***************************************************************************)
(* The chunked analyzer on recordings cut into several chunks that share   *)
(* most of their samples: flow at a steady level, then at half of it, then *)
(* at 0 to the end of the recording, in chunks of 48 s that overlap by     *)
(* 40 s or by 24 s.                                                        *)
(***************************************************************************)
\* seconds at the steady level, at half of it, at 0
OrderSegments == {<< 34, 10, 24 >>, << 34, 10, 35 >>, << 34, 31, 24 >>, << 11, 31, 35 >>}

OrderChunkings == {<< Rat(4, 5), Rat(2, 3) >>, << Rat(4, 5), Rat(2, 5) >>}

OrderRates == {<< 1, 1 >>, << 1, 2 >>}

InitOrder ==
    /\ \E g \in OrderSegments, r \in OrderRates :
           /\ flow_data = Rep(SteadyFlow, g[1] * r[1]) \o Rep(5, g[2] * r[1])
                              \o Rep(0, g[3] * r[1])
           /\ spo2_data = Rep(SteadySpo2, g[1] * r[2])
                              \o Rep(92, (g[2] + g[3]) * r[2])
           /\ flow_sr = r[1]
           /\ spo2_sr = r[2]
    /\ \E c \in OrderChunkings :
           chunk_duration_minutes = c[1] /\ overlap_minutes = c[2]
    /\ sp_global_baseline = None
    /\ ChunkedIdle
    /\ SingleIdle
    /\ DedupIdle
    /\ AggIdle
    /\ ScanIdle
    /\ SmoothIdle

SpecOrder == InitOrder /\ [][Next]_vars

\* What one iteration of the chunk loop appends to the two pools.
ChunkEvents(idx) ==
    LET c == ChunkAt(idx)
    IN  [apnea    |-> detect_apnea_in_chunk(c.flow_chunk, c.chunk_start_time,
                                            global_baseline, flow_sr),
         hypopnea |-> detect_hypopnea_in_chunk(c.flow_chunk, c.spo2_chunk,
                                               c.chunk_start_time, global_baseline,
                                               flow_sr, spo2_sr)]

\* All orders of the elements of a finite set, as sequences.
RECURSIVE Orders(_)
Orders(S) ==
    IF S = {} THEN {<< >>}
    ELSE UNION {{<< x >> \o rest : rest \in Orders(S \ {x})} : x \in S}

\* The lists of the chunks taken in the given order, pooled.
RECURSIVE PoolInOrder(_, _)
PoolInOrder(lists, order) ==
    IF order = << >> THEN << >>
    ELSE lists[Head(order)] \o PoolInOrder(lists, Tail(order))

\* C17: for every order in which the per-chunk event lists are pooled,
\* deduplication gives the apnea list, the hypopnea list and the ahi_score
\* that analyze() returned.
C17_ChunkOrderIndependent ==
    ChunkedReturned =>
        \A per \in {[idx \in 0..(num_chunks - 1) |-> ChunkEvents(idx)]} :
        \A order \in Orders(0..(num_chunks - 1)) :
            \E apnea \in {remove_duplicate_events(
                              PoolInOrder([i \in DOMAIN per |-> per[i].apnea], order))} :
            \E hypopnea \in {remove_duplicate_events(
                              PoolInOrder([i \in DOMAIN per |-> per[i].hypopnea], order))} :
                /\ apnea = results.apnea_events
                /\ hypopnea = results.hypopnea_events
                /\ calculate_ahi(apnea, hypopnea, recording_duration_hours).ahi_score
                       = results.ahi_analysis.ahi_score


(***************************************************************************)
(* Properties of the returned event lists.                                 *)
(***************************************************************************)
\* How many times a value occurs in a sequence.
Occurrences(seq, v) == Cardinality({k \in 1..Len(seq) : seq[k] = v})

\* C18: in the result of either analyzer, all_events is in non-decreasing
\* order of start_time and holds exactly the events of apnea_events and of
\* hypopnea_events, each as many times as those two lists hold it.
C18_AllEventsSortedUnion ==
    \A r \in Returned :
        /\ \A i, j \in 1..Len(r.all_events) :
               i < j => RLe(r.all_events[i].start_time, r.all_events[j].start_time)
        /\ Len(r.all_events) = Len(r.apnea_events) + Len(r.hypopnea_events)
        /\ \A e \in Range(r.all_events) \cup Range(r.apnea_events)
                        \cup Range(r.hypopnea_events) :
               Occurrences(r.all_events, e)
                   = Occurrences(r.apnea_events \o r.hypopnea_events, e)

\* Both analyzers have returned an apnea and a hypopnea, the hypopnea
\* starting first, so that all_events is not the two lists joined.
C18_Witness ==
    /\ ChunkedReturned
    /\ SingleReturned
    /\ \A r \in Returned :
           /\ r.apnea_events # << >>
           /\ r.hypopnea_events # << >>
           /\ r.all_events # r.apnea_events \o r.hypopnea_events
           /\ r.all_events[1].type = "hypopnea"


\* C19: the chunked analyzer has no baseline and has processed no chunk
\* until analyze() computes the baseline of the whole flow recording; from
\* then on the baseline never changes, each loop iteration appends to the
\* pools what the detectors find in its chunk with thresholds taken from
\* that baseline, and the result echoes it as global_baseline.
C19_GlobalBaselineComputedOnceAndReused ==
    /\ [](/\ pc \in {"new", "ready"} =>
                /\ global_baseline = None
                /\ chunk_idx = 0
                /\ all_apnea_events = << >>
                /\ all_hypopnea_events = << >>
          /\ pc \in {"chunks", "done"} => global_baseline = BaselineOf(flow_data)
          /\ ChunkedReturned => results.global_baseline = BaselineOf(flow_data))
    /\ [][/\ pc \in {"chunks", "done"} => global_baseline' = global_baseline
          /\ chunk_idx' = chunk_idx + 1 =>
                \E found \in {ChunkEvents(chunk_idx)} :
                    /\ all_apnea_events' = all_apnea_events \o found.apnea
                    /\ all_hypopnea_events' = all_hypopnea_events \o found.hypopnea]_vars

\* The chunked analyzer has returned events found in several chunks, one of
\* which has a baseline of its own that differs from the global one.
C19_Witness ==
    /\ ChunkedReturned
    /\ num_chunks >= 2
    /\ results.global_baseline = BaselineOf(flow_data)
    /\ results.apnea_events # << >>
    /\ \E idx \in 0..(num_chunks - 1) :
           /\ ChunkAt(idx).flow_chunk # << >>
           /\ BaselineOf(ChunkAt(idx).flow_chunk) # global_baseline


(***************************************************************************)
(* The run-length scan on its own: the loop of the four detectors applied  *)
(* to an array of flags.  At 1 Hz every array of up to MaxScanLen flags;   *)
(* at 2 Hz arrays of up to three runs of 0, 1, 19 or 20 flags.             *)
(***************************************************************************)
MaxScanLen == 12

ScanRunLens == {0, 1, 19, 20}

FlagArrays(sr) ==
    IF sr = 1
    THEN UNION {[1..n -> BOOLEAN] : n \in 0..MaxScanLen}
    ELSE {Rep(b, l1) \o Rep(~b, l2) \o Rep(b, l3) :
             b \in BOOLEAN, l1 \in ScanRunLens, l2 \in ScanRunLens, l3 \in ScanRunLens}

InitScan ==
    /\ sc_sr \in {1, 2}
    /\ sc_flags \in FlagArrays(sc_sr)
    /\ sc_events = << >>
    /\ sc_done = FALSE
    /\ InputIdle
    /\ ChunkedIdle
    /\ SingleIdle
    /\ DedupIdle
    /\ AggIdle
    /\ SmoothIdle

\* events = the intervals the loop and the step after it collect
Scan ==
    /\ ~sc_done
    /\ sc_events' = RunLengthScan(sc_flags, sc_sr)
    /\ sc_done' = TRUE
    /\ UNCHANGED << sc_flags, sc_sr >>
    /\ UNCHANGED << inputVars, chunkedVars, singleVars, dedupVars, aggVars, smoothVars >>

NextScan == Scan

SpecScan == InitScan /\ [][NextScan]_vars

\* [s, e) is a maximal run of true flags: all flags in it are true, and it
\* is bounded on each side by a false flag or by the end of the array.
IsMaximalRun(flags, s, e) ==
    /\ 0 <= s
    /\ s < e
    /\ e <= Len(flags)
    /\ \A k \in (s + 1)..e : flags[k]
    /\ s = 0 \/ ~flags[s]
    /\ e = Len(flags) \/ ~flags[e + 1]

\* The maximal runs of at least min_event_duration seconds at rate sr.
LongMaximalRuns(flags, sr) ==
    {p \in (0..Len(flags)) \X (0..Len(flags)) :
        /\ IsMaximalRun(flags, p[1], p[2])
        /\ (p[2] - p[1]) >= min_event_duration * sr}

\* C20: the scan of an array of N flags returns, in increasing order of
\* start, exactly the maximal runs [start, end) of true flags with
\* (end - start) / R >= 10 s, each with duration (end - start) / R; a run
\* that reaches the end of the array is closed at N and kept under the same
\* test; no shorter run and no part of a run is returned.
C20_ScanReturnsLongMaximalRuns ==
    sc_done =>
        /\ \A i, j \in 1..Len(sc_events) :
               i < j => sc_events[i].start_sample < sc_events[j].start_sample
        /\ {<< iv.start_sample, iv.end_sample >> : iv \in Range(sc_events)}
               = LongMaximalRuns(sc_flags, sc_sr)
        /\ \A iv \in Range(sc_events) :
               iv.duration = Rat(iv.end_sample - iv.start_sample, sc_sr)

\* The scan, at 2 Hz, has returned a run that it closed at the end of the
\* array, and has left out a maximal run one sample short of 10 s.
C20_Witness ==
    /\ sc_done
    /\ sc_sr = 2
    /\ Len(sc_events) = 1
    /\ sc_events[1].end_sample = Len(sc_flags)
    /\ IsMaximalRun(sc_flags, 0, 19)

(***************************************************************************)
(* Properties of the chunk geometry.                                       *)
(***************************************************************************)
\* Flow sample index i belongs to the flow slice of a processed chunk.
InSomeChunk(i) ==
    \E idx \in ProcessedChunks :
        /\ ChunkFlowStart(idx, flow_chunk_size, flow_overlap_size) <= i
        /\ i < ChunkFlowEnd(idx, flow_chunk_size, flow_overlap_size, Len(flow_data))

\* C21: with an overlap smaller than the chunk (positive rates), every flow
\* sample index 0..N-1 belongs to the flow slice of at least one chunk with
\* index below num_chunks.
C21_ChunksCoverRecording ==
    (Constructed /\ flow_sr > 0 /\ flow_overlap_size < flow_chunk_size)
        => \A i \in 0..(Len(flow_data) - 1) : InSomeChunk(i)


(***************************************************************************)
(* Properties of the deduplicator.                                         *)
(***************************************************************************)
Deduplicated == dd_passes >= 1

\* overlap / max(durationA, durationB) > 0.5, as 2 * overlap > the longer
\* duration.
OverlapsMoreThanHalf(a, b) ==
    LET overlap == RMax(RInt(0), RSub(RMin(a.end_time, b.end_time),
                                      RMax(a.start_time, b.start_time)))
        longer  == RMax(RSub(a.end_time, a.start_time), RSub(b.end_time, b.start_time))
    IN  RLt(longer, RMul(RInt(2), overlap))

\* The first-match policy, one event at a time: the accepted list after the
\* first k events of the list in start_time order.
RECURSIVE AcceptedAfter(_, _)
AcceptedAfter(in_order, k) ==
    IF k = 0 THEN << >>
    ELSE LET accepted == AcceptedAfter(in_order, k - 1)
             new      == in_order[k]
             matches  == {j \in 1..Len(accepted) : OverlapsMoreThanHalf(new, accepted[j])}
         IN  IF matches = {} THEN Append(accepted, new)
             ELSE LET first == CHOOSE j \in matches : \A m \in matches : j <= m
                  IN  IF RLt(accepted[first].duration, new.duration)
                      THEN [j \in 1..Len(accepted) |->
                               IF j < first THEN accepted[j]
                               ELSE IF j < Len(accepted) THEN accepted[j + 1]
                               ELSE new]
                      ELSE accepted

\* C22: the deduplicator takes the events in start_time order and compares
\* each with the accepted events in acceptance order up to the first one it
\* overlaps by more than half of the longer duration; it then replaces that
\* accepted event if it is strictly longer and is dropped otherwise; an
\* event without such a match is accepted.
C22_FirstMatchPolicy ==
    Deduplicated =>
        dd_unique = AcceptedAfter(SortByStart(dd_pooled), Len(dd_pooled))

\* The deduplicator has returned [105,145] and [105,130] for the pool
\* [100,120], [105,145], [105,130]: the third event replaced the first
\* without being compared with the second, which it also overlaps.
C22_Witness ==
    /\ dd_passes = 1
    /\ dd_pooled = << PooledEvent(100, 120), PooledEvent(105, 145), PooledEvent(105, 130) >>
    /\ dd_unique = << PooledEvent(105, 145), PooledEvent(105, 130) >>


\* C25: the list the deduplicator returns holds no two events (at different
\* positions) that overlap by more than half of the longer of the two.
C25_OutputHasNoDuplicates ==
    Deduplicated =>
        \A i, j \in 1..Len(dd_unique) :
            i < j => ~OverlapsMoreThanHalf(dd_unique[i], dd_unique[j])

\* C30: the list the deduplicator returns is in non-decreasing order of
\* start_time, holds only events of its input (each at most as often as the
\* input holds it), is no longer than the input, and is empty exactly when
\* the input is empty.
C30_OutputIsSortedSublist ==
    Deduplicated =>
        /\ \A i, j \in 1..Len(dd_unique) :
               i < j => RLe(dd_unique[i].start_time, dd_unique[j].start_time)
        /\ \A e \in Range(dd_unique) :
               /\ e \in Range(dd_pooled)
               /\ Occurrences(dd_unique, e) <= Occurrences(dd_pooled, e)
        /\ Len(dd_unique) <= Len(dd_pooled)
        /\ (dd_unique = << >>) <=> (dd_pooled = << >>)

\* The deduplicator has returned two events out of three pooled out of
\* start order, the first of them accepted in place of a shorter one.
C30_Witness ==
    /\ dd_passes = 1
    /\ dd_pooled = << PooledEvent(120, 145), PooledEvent(105, 130), PooledEvent(100, 120) >>
    /\ dd_unique = << PooledEvent(105, 130), PooledEvent(120, 145) >>


(***************************************************************************)
(* The smoothing step on its own: the window size the detectors compute    *)
(* from the rate (2 s for flow, 3 s for SpO2) and the array length, and    *)
(* uniform_filter1d with that size.  sm_out holds the window sums: the     *)
(* smoothed sample is sm_out[i] / size.                                    *)
(***************************************************************************)
MaxSmoothLen == 5

SmoothLevels == {0, 1, 4}

InitSmooth ==
    /\ sm_x \in UNION {[1..n -> SmoothLevels] : n \in 1..MaxSmoothLen}
    /\ sm_sr \in {1, 2}
    /\ sm_seconds \in {flow_filter_seconds, spo2_filter_seconds}
    /\ sm_out = << >>
    /\ sm_done = FALSE
    /\ InputIdle
    /\ ChunkedIdle
    /\ SingleIdle
    /\ DedupIdle
    /\ AggIdle
    /\ ScanIdle

\* smooth = uniform_filter1d(x, size=filter_size)
Smooth ==
    /\ ~sm_done
    /\ sm_out' = uniform_filter1d(sm_x, FilterSize(sm_sr, sm_seconds, Len(sm_x)))
    /\ sm_done' = TRUE
    /\ UNCHANGED << sm_x, sm_sr, sm_seconds >>
    /\ UNCHANGED << inputVars, chunkedVars, singleVars, dedupVars, aggVars, scanVars >>

NextSmooth == Smooth

SpecSmooth == InitSmooth /\ [][NextSmooth]_vars

SmoothSize == FilterSize(sm_sr, sm_seconds, Len(sm_x))

\* The window of output sample i (0-based): size samples from i - size \div 2.
SmoothWindow(i) == (i - SmoothSize \div 2)..(i - SmoothSize \div 2 + SmoothSize - 1)

Reversed(x) == [k \in 1..Len(x) |-> x[Len(x) + 1 - k]]

\* The array continued on both sides by its mirror image: index j of the
\* array (0-based, -N <= j < 2N) is at position N + j + 1.
Mirrored(x) == Reversed(x) \o x \o Reversed(x)

\* C23 (as the code has it): the smoothed array has the length of the
\* input, and every output sample is the mean of the `size` samples of its
\* window taken from the input continued by reflection at both ends
\* (d c b a | a b c d | d c b a); where the window lies inside the array
\* that is the mean of the input samples of the window.
C23_SmoothingReflectsAtEdges ==
    sm_done =>
        /\ Len(sm_out) = Len(sm_x)
        /\ \A i \in 0..(Len(sm_x) - 1) :
               sm_out[i + 1] =
                   SumSeq([k \in 1..SmoothSize |->
                              Mirrored(sm_x)[Len(sm_x) + (i - SmoothSize \div 2) + k]])

\* A smoothed array whose first sample is not the mean of the input samples
\* available in its window.
C23_Witness ==
    /\ sm_done
    /\ sm_x = << 0, 4, 4, 4, 4 >>
    /\ SmoothSize = 3
    /\ sm_out = << 4, 8, 12, 12, 12 >>

\* C23 as stated: the smoothed array has the length of the input, and every
\* output sample is the mean of the input samples available in its window
\* (the window shrinks at the ends of the array).
C23_SmoothingShrinksAtEdges ==
    sm_done =>
        /\ Len(sm_out) = Len(sm_x)
        /\ \A i \in 0..(Len(sm_x) - 1) :
               LET available == SmoothWindow(i) \cap (0..(Len(sm_x) - 1))
               IN  sm_out[i + 1] * Cardinality(available)
                       = SmoothSize * SumSeq([k \in 1..Cardinality(available) |->
                             sm_x[(CHOOSE j \in available : \A m \in available : j <= m) + k]])


(***************************************************************************)
(* Properties of the SpO2 corroboration.                                   *)
(***************************************************************************)
\* A recording both analyzers accept: positive rates, no empty channel.
WellFormedInput ==
    /\ flow_sr > 0
    /\ spo2_sr > 0
    /\ flow_data # << >>
    /\ spo2_data # << >>

\* The windows the detectors analyse, once they have returned: the whole
\* recording (single pass) and each chunk (chunked), each with its flow and
\* SpO2 slices, the time of its first sample, the baseline, and the
\* hypopneas the detector found in it.
AnalysedWindows ==
    (IF SingleReturned
     THEN {[flow |-> flow_data, spo2 |-> spo2_data, start_time |-> RInt(0),
            baseline |-> sp_results.baseline,
            apnea |-> sp_results.apnea_events,
            hypopnea |-> sp_results.hypopnea_events]}
     ELSE {})
    \cup
    (IF ChunkedReturned
     THEN {[flow |-> ChunkAt(idx).flow_chunk, spo2 |-> ChunkAt(idx).spo2_chunk,
            start_time |-> ChunkAt(idx).chunk_start_time,
            baseline |-> global_baseline,
            apnea |-> ChunkEvents(idx).apnea,
            hypopnea |-> ChunkEvents(idx).hypopnea] : idx \in ProcessedChunks}
     ELSE {})

\* The candidate's SpO2 span [first, last) within the window's SpO2 slice.
Spo2SpanOf(candidate, w) ==
    [first |-> Max(0, Trunc(RMul(RSub(candidate.start_time, w.start_time),
                                 RInt(spo2_sr)))),
     last  |-> Min(Len(w.spo2), Trunc(RMul(RSub(candidate.end_time, w.start_time),
                                           RInt(spo2_sr))))]

\* The span is empty or inverted, or nothing precedes it in the slice.
EmptyCorroborationWindow(candidate, w) ==
    \/ Spo2SpanOf(candidate, w).last <= Spo2SpanOf(candidate, w).first
    \/ Spo2SpanOf(candidate, w).first = 0

\* C24: on a well-formed recording neither analyzer raises, and a hypopnea
\* candidate whose SpO2 span is empty or inverted, or starts at index 0 of
\* the analysed SpO2 slice, is not among the hypopneas found in its window.
C24_EmptyWindowCandidateSkipped ==
    /\ WellFormedInput => sp_pc # "raised" /\ pc # "raised"
    /\ \A w \in AnalysedWindows :
           \A candidate \in Range(PotentialEvents(w.flow, flow_sr, w.baseline,
                                                  w.start_time)) :
               EmptyCorroborationWindow(candidate, w) =>
                   \A k \in 1..Len(w.hypopnea) :
                       w.hypopnea[k].start_sample # candidate.start_sample

\* Both analyzers have returned for a recording that opens with 12 s of
\* flow at half the baseline while SpO2 falls from 97 to 92 in the 30 s
\* after them; the candidate at sample 0 is not reported.
C24_Witness ==
    /\ ChunkedReturned
    /\ SingleReturned
    /\ flow_data = Rep(5, LongSeg) \o Rep(10, LongSeg) \o Rep(10, LongSeg)
    /\ spo2_data = Rep(97, LongSeg) \o Rep(92, LongSeg)
    /\ flow_sr = 1
    /\ spo2_sr = 1
    /\ \E candidate \in Range(PotentialEvents(flow_data, flow_sr, sp_results.baseline,
                                              RInt(0))) :
           candidate.start_sample = 0
    /\ sp_results.hypopnea_events = << >>
    /\ results.hypopnea_events = << >>


\* Two events share some stretch of time.
OverlapInTime(a, b) ==
    RLt(RMax(a.start_time, b.start_time), RMin(a.end_time, b.end_time))

\* C29: in a window analysed with a baseline > 0, no sample satisfies both
\* the apnea predicate and the hypopnea predicate, and no apnea found in
\* the window overlaps in time a hypopnea found in the same window.
C29_ApneaAndHypopneaDisjoint ==
    \A w \in AnalysedWindows :
        RLt(RInt(0), w.baseline) =>
            /\ \A i \in 1..Len(w.flow) :
                   ~(/\ ApneaFlags(w.flow, flow_sr, w.baseline)[i]
                     /\ HypopneaFlags(w.flow, flow_sr, w.baseline)[i])
            /\ \A i \in 1..Len(w.apnea), j \in 1..Len(w.hypopnea) :
                   ~OverlapInTime(w.apnea[i], w.hypopnea[j])

\* The single-pass analyzer has returned an apnea and a hypopnea found with
\* a positive baseline, and a chunk of the chunked analyzer holds both too.
C29_Witness ==
    /\ SingleReturned
    /\ ChunkedReturned
    /\ \A w \in AnalysedWindows : RLt(RInt(0), w.baseline)
    /\ sp_results.apnea_events # << >>
    /\ sp_results.hypopnea_events # << >>
    /\ \E idx \in ProcessedChunks :
           /\ ChunkEvents(idx).apnea # << >>
           /\ ChunkEvents(idx).hypopnea # << >>


\* The maximal runs of at least 10 s of one predicate over the whole
\* recording, as events in seconds.
RecordingRuns(flags) ==
    {[start_time |-> Rat(iv.start_sample, flow_sr),
      end_time   |-> Rat(iv.end_sample, flow_sr)] :
        iv \in Range(RunLengthScan(flags, flow_sr))}

\* C26: on a well-formed recording cut with an overlap smaller than the
\* chunk and analysed with a positive baseline, the deduplicated list of
\* the chunked analyzer holds, for every maximal run of apnea-true (or
\* hypopnea-true) samples of the recording, at most one apnea (hypopnea)
\* that overlaps the run.
C26_OneEventPerRun ==
    (/\ ChunkedReturned
     /\ WellFormedInput
     /\ flow_overlap_size < flow_chunk_size
     /\ RLt(RInt(0), global_baseline))
        => /\ \A run \in RecordingRuns(ApneaFlags(flow_data, flow_sr, global_baseline)) :
                  Cardinality({k \in 1..Len(results.apnea_events) :
                                  OverlapInTime(results.apnea_events[k], run)}) <= 1
           /\ \A run \in RecordingRuns(HypopneaFlags(flow_data, flow_sr, global_baseline)) :
                  Cardinality({k \in 1..Len(results.hypopnea_events) :
                                  OverlapInTime(results.hypopnea_events[k], run)}) <= 1


(***************************************************************************)
(* Properties of the aggregator's result.                                  *)
(***************************************************************************)
\* C27: in every result of the aggregator, severity and severity_color are
\* the band of the reported ahi_score (one decimal); no result carries an
\* ahi_score of 5.0, 15.0 or 30.0 with the severity of the band below.
C27_ReportedScoreInReportedBand ==
    Aggregated =>
        /\ agg_out.severity = BandOfTenths(agg_out.ahi_score)[1]
        /\ agg_out.severity_color = BandOfTenths(agg_out.ahi_score)[2]
        /\ ~(agg_out.ahi_score = 50 /\ agg_out.severity = "Normal")
        /\ ~(agg_out.ahi_score = 150 /\ agg_out.severity = "Mild")
        /\ ~(agg_out.ahi_score = 300 /\ agg_out.severity = "Moderate")

\* C28: every event counted in the AHI lies within the recording duration
\* used as the AHI denominator: 0 <= start_time and end_time <=
\* min(len(flow) / flow_sr, len(spo2) / spo2_sr), also when the flow channel
\* covers more time than the SpO2 channel.
UsableSeconds ==
    RMin(Rat(Len(flow_data), flow_sr), Rat(Len(spo2_data), spo2_sr))

C28_EventsWithinRecordingDuration ==
    WellFormedInput
        => \A e \in ReturnedEvents :
               /\ RLe(RInt(0), e.start_time)
               /\ RLe(e.end_time, UsableSeconds)


====
